---- MODULE Spec2Model ----
(***************************************************************************)
(* Model of the scan-and-annotate pipeline of listme (src/go/src/main.go,  *)
(* lines 1-459) and of the tag validation of its command line front end    *)
(* (src/unnamed/part_000).                                                 *)
(*                                                                         *)
(* Processes of the pipeline: the Search goroutine (walker), the           *)
(* searchWorker goroutines and the PrintResult goroutine (sink).  They     *)
(* share two unbuffered channels, two sync.WaitGroup counters, the         *)
(* standard output and the working directory of the process.               *)
(***************************************************************************)
EXTENDS Integers, Sequences, FiniteSets, TLC

\* ------------------------------------------------------------------ bounds
MaxWorkers == 2
\* The scan loop is checked on every file of at most MaxLines lines.
MaxLines == 3
\* The tag option is checked on at most MaxTags tags of at most MaxTagLen
\* characters.
MaxTags == 2
MaxTagLen == 2

\* ------------------------------------------------------- the file system
\* A location is the sequence of names below the directory the process was
\* started in; every job path is such a sequence too (the path string the
\* walker built).  Names sorts the names the way os.ReadDir returns them.
Names == <<"d", "g", "h">>
Locs  == { <<>>, <<"d">>, <<"d", "g">>, <<"g">>, <<"h">> }

Line(cls, tag, text) == [cls |-> cls, tag |-> tag, text |-> text]
TextLine    == Line("text", "", "")
BinLine     == Line("bin", "", "")
Tagged(t, x) == Line("match", t, x)

\* kind: what Lstat reports; readable: open/readdir permitted; lines: the
\* content as bufio.Scanner tokens; tracked, records: git blame exits 0 and
\* reports that many line records.
Node(kind, readable, lines, tracked, records) ==
    [kind |-> kind, readable |-> readable, lines |-> lines,
     tracked |-> tracked, records |-> records]
Absent     == Node("absent", FALSE, <<>>, FALSE, 0)
Dir        == Node("dir", TRUE, <<>>, FALSE, 0)
DirNoRead  == Node("dir", FALSE, <<>>, FALSE, 0)
BrokenLink == Node("linkBroken", FALSE, <<>>, FALSE, 0)
DirLink    == Node("linkDir", TRUE, <<>>, FALSE, 0)
Reg(lines, records) == Node("reg", TRUE, lines, TRUE, records)
Untracked(lines)    == Node("reg", TRUE, lines, FALSE, 0)
RegNoRead(lines)    == Node("reg", FALSE, lines, FALSE, 0)

VARIABLES
    tree,       \* Locs -> Node: the (unmodified) file system
    root,       \* the path argument, a location
    rootAbs,    \* TRUE: the path argument was given as an absolute path
    repo,       \* [found, pats]: the enclosing repository and its ignore patterns
    nWorkers,   \* Options.Workers
    matcher,    \* main's matcher: "nil" or "loaded"
    cwd,        \* the working directory of the process
    proc,       \* "running", or "exited" after log.Fatalf
    spc,        \* where Search is: "walk", "send", "wgResultWait", "returned"
    todo,       \* entries filepath.WalkDir has read and not yet visited
    job,        \* the job Search is sending on searchJobs
    wg,         \* Search's wg counter (pending jobs)
    wgResult,   \* Search's wgResult counter (pending results)
    wpc,        \* per worker: "none", "recv", "stat", "open", "send", "done", "dead"
    wjob,       \* per worker: the path of the job it holds
    wres,       \* per worker: the result it built
    kpc,        \* the sink: "recv", "header", "blame", "lines"
    kres,       \* the result the sink holds
    kgb,        \* what BlameFile returned for it
    ki,         \* index of the next line of kres to print
    out,        \* the lines written to standard output, in order
    submitted,  \* history: job paths in the order walk submitted them
    completed,  \* history: per path, how often wg.Done ran for its job
    opened,     \* history: the job paths os.Open was called for
    emitted,    \* history: per path, the results workers put on searchResults
    consumed,   \* history: per path, how often wgResult.Done ran for its result
    blames,     \* history: the BlameFile invocations, in order
    run,        \* 1, or 2 when the same tree is being scanned a second time
    prev,       \* the tuples the first of two runs presented
    \* the scan loop of searchWorker on its own
    sIn,        \* the tokens bufio.Scanner yields for the file
    sPos,       \* the position of the scanner's next token
    sLine,      \* line
    sLines,     \* lines
    sPc,        \* "scan" inside the loop, "end" after it, "idle"
    \* main of the command line front end
    aTags,      \* the values given to -T/--tags (none: the option is absent)
    aPc,        \* "parse", "params", "search", "fatal", "end", "idle"
    aErr,       \* err of parser.Parse
    aUsage,     \* parser.Usage(err) was printed
    aSearch,    \* search.Search was invoked
    \* the loop of PrintResult over the lines of one result, on its own
    bGb,        \* gb, gb_err: what BlameFile returned
    bLines,     \* result.Lines
    bI,         \* index of the next line
    bOut,       \* the lines printed
    bPc,        \* "loop", "end", "idle"
    \* parseGitBlame on its own
    pIn,        \* the lines of git's output
    pPos,       \* the position of the scanner's next line
    pCur,       \* currentBlame
    pBlames,    \* blames
    pChan,      \* what blameChannel holds
    pPc,        \* "scan", "flush", "send", "end", "idle"
    \* BlameFile from cmd.Start on: the caller, the parser goroutine and git
    fPc,        \* BlameFile: "wgWait", "cmdWait", "recv", "returned", "idle"
    fWg,        \* BlameFile's wg counter
    fErr,       \* BlameFile returned an error
    fBlames,    \* the blames of the GitBlame it returned
    gPc,        \* git: "running", "exited", "idle"
    gWritten,   \* the lines git has written to its standard output
    gFail       \* git exits with a non-zero status

\* What main hands to Search: fixed during a run.
inputs == << tree, root, rootAbs, repo, nWorkers, matcher >>

vars == << tree, root, rootAbs, repo, nWorkers, matcher, cwd, proc, spc, todo,
           job, wg, wgResult, wpc, wjob, wres, kpc, kres, kgb, ki, out,
           submitted, completed, opened, emitted, consumed, blames,
           run, prev, sIn, sPos, sLine, sLines, sPc, aTags, aPc, aErr, aUsage,
           aSearch, bGb, bLines, bI, bOut, bPc,
           pIn, pPos, pCur, pBlames, pChan, pPc,
           fPc, fWg, fErr, fBlames, gPc, gWritten, gFail >>

twiceVars == << run, prev >>
scanVars  == << sIn, sPos, sLine, sLines, sPc >>
argVars   == << aTags, aPc, aErr, aUsage, aSearch >>
blameVars == << bGb, bLines, bI, bOut, bPc >>
parseVars == << pIn, pPos, pCur, pBlames, pChan, pPc >>
\* What no step of Search touches.
fileVars  == << fPc, fWg, fErr, fBlames, gPc, gWritten, gFail >>
others    == << twiceVars, scanVars, argVars, blameVars, parseVars, fileVars >>

Workers == 1 .. MaxWorkers

NodeAt(loc) == IF loc \in Locs THEN tree[loc] ELSE Absent

\* A relative path is resolved by the OS against the working directory.
Resolve(path) == IF rootAbs THEN path ELSE cwd \o path

DirOf(p) == IF p = <<>> THEN <<>> ELSE SubSeq(p, 1, Len(p) - 1)

\* os.Stat follows symbolic links.
StatOk(loc)    == NodeAt(loc).kind \in {"dir", "reg", "linkDir"}
StatIsDir(loc) == NodeAt(loc).kind \in {"dir", "linkDir"}
OpenOk(loc)    == StatOk(loc) /\ NodeAt(loc).readable
\* Reading a directory through a file descriptor fails: no tokens.
FileLines(loc) == IF NodeAt(loc).kind = "reg" THEN NodeAt(loc).lines ELSE <<>>
ReadDirOk(loc) == NodeAt(loc).kind = "dir" /\ NodeAt(loc).readable
IsPresent(loc) == NodeAt(loc).kind # "absent"
\* The entries of directory loc, as DirEntry values for the path string p.
ReadDir(p, loc) ==
    LET present == SelectSeq(Names, LAMBDA n : IsPresent(Append(loc, n)))
    IN  [i \in 1 .. Len(present) |->
            [path  |-> Append(p, present[i]),
             isDir |-> NodeAt(Append(loc, present[i])).kind = "dir"]]

\* ------------------------------------------------------------ pure parts
\* loadGitignore: a matcher when a repository encloses the path, else nil.
loadGitignore(r) == IF r.found THEN "loaded" ELSE "nil"

\* gitignore.Matcher.Match on the split job path.
Match(path, isDir) == path \in repo.pats

MatchLine(n, l) == [n |-> n, tag |-> l.tag, text |-> l.text]

\* The scan loop of searchWorker: stop at the first non-text token, record
\* the tokens the regular expression matches with the running line number.
\* ScanToken with the line counter advanced on matching lines only.
ScanTokenCountsMatches(l, line, lines) ==
    IF l.cls = "bin"
    THEN [stop |-> TRUE, line |-> line, lines |-> lines]
    ELSE [stop  |-> FALSE,
          line  |-> IF l.cls = "match" THEN line + 1 ELSE line,
          lines |-> IF l.cls = "match" THEN Append(lines, MatchLine(line, l))
                    ELSE lines]

\* ScanToken with the non-text line skipped instead of ending the loop.
ScanTokenSkipsBinary(l, line, lines) ==
    [stop  |-> FALSE,
     line  |-> line + 1,
     lines |-> IF l.cls = "match" THEN Append(lines, MatchLine(line, l))
               ELSE lines]

\* One iteration of the loop on token l: stop tells the break.
ScanToken(l, line, lines) ==
    IF l.cls = "bin"
    THEN [stop |-> TRUE, line |-> line, lines |-> lines]
    ELSE [stop  |-> FALSE,
          line  |-> line + 1,
          lines |-> IF l.cls = "match" THEN Append(lines, MatchLine(line, l))
                    ELSE lines]

\* scanner.Scan(): true when a further line is delivered.  A bufio.Scanner
\* with its default buffer delivers no line longer than its token limit and
\* reports the end of the input from such a line on.
ScanOk(ls, pos) == pos <= Len(ls) /\ ls[pos].cls # "long"

\* The loop from the token at position pos on, until Scan() returns false
\* or the break.
RECURSIVE scanFrom(_, _, _, _)
scanFrom(ls, pos, line, lines) ==
    IF ~ScanOk(ls, pos) THEN lines
    ELSE LET it == ScanToken(ls[pos], line, lines) IN
         IF it.stop THEN it.lines ELSE scanFrom(ls, pos + 1, it.line, it.lines)

\* line := 1; lines := make([]*matchLine, 0); the loop.
scanLines(ls) == scanFrom(ls, 1, 1, <<>>)

\* GitBlame.BlameLine: the record of a 1-based line, or an error.
BlameLineOk(gb, line) == ~(line - 1 < 0 \/ line - 1 >= gb.records)

\* b.blames: the records git reported for the file, one per line, in order;
\* a record is named by its file and its ordinal.
Records(gb) == [i \in 1 .. gb.records |-> << gb.abs, i >>]

\* BlameLine without line = line - 1.
BlameLineFromZero(gb, line) ==
    IF ~(line < 0 \/ line >= gb.records)
    THEN Records(gb)[line + 1]
    ELSE <<>>

\* BlameLine: b.blames[line - 1], slices counting from 0; <<>> is the error.
BlameLine(gb, line) ==
    IF BlameLineOk(gb, line)
    THEN Records(gb)[(line - 1) + 1]
    ELSE <<>>

NoResult == [Path |-> <<>>, Lines |-> <<>>, src |-> <<>>]
NoBlame  == [err |-> TRUE, records |-> 0, abs |-> <<>>]
\* currentBlame == nil
NoLineBlame == [nil |-> TRUE, Author |-> "", Timestamp |-> 0]

Item(k, path, n, tag, text, by) ==
    [k |-> k, path |-> path, n |-> n, tag |-> tag, text |-> text, by |-> by]

Running == proc = "running" /\ spc # "returned"

\* --------------------------------------------------------------- Search
\* walk without the wg.Add(1).
JobAddMissing(c) == c

\* wg.Add(1) in walk, before the send.
JobAdd(c) == c + 1

\* One visit of filepath.WalkDir with the callback walk: a directory is
\* read and its entries queued (a read error is handed to walk, which returns
\* it, and WalkDir stops); any other entry becomes a job, counted in wg
\* before the send.
WalkVisit ==
    /\ Running /\ spc = "walk" /\ todo # <<>>
    /\ LET e == Head(todo) IN
       IF e.isDir
       THEN /\ todo' = IF ReadDirOk(Resolve(e.path))
                       THEN ReadDir(e.path, Resolve(e.path)) \o Tail(todo)
                       ELSE <<>>
            /\ UNCHANGED << spc, job, wg, submitted >>
       ELSE /\ wg' = JobAdd(wg)
            /\ job' = e.path
            /\ spc' = "send"
            /\ submitted' = Append(submitted, e.path)
            /\ todo' = Tail(todo)
    /\ UNCHANGED << others, inputs, cwd, proc,
                    wgResult, wpc, wjob, wres, kpc, kres, kgb, ki, out,
                    completed, opened, emitted, consumed, blames >>

\* The unbuffered searchJobs channel: the send in walk meets a worker's receive.
\* The workers blocked in the receive are indistinguishable (same code, no
\* state kept across jobs), so the one that gets the job is named as the
\* first of them.
JobHandoff(w) ==
    /\ Running /\ spc = "send" /\ wpc[w] = "recv"
    /\ \A v \in Workers : v < w => wpc[v] # "recv"
    /\ wjob' = [wjob EXCEPT ![w] = job]
    /\ wpc' = [wpc EXCEPT ![w] = "stat"]
    /\ spc' = "walk"
    /\ UNCHANGED << others, inputs, cwd, proc,
                    todo, job, wg, wgResult, wres, kpc, kres, kgb, ki, out,
                    submitted, completed, opened, emitted, consumed, blames >>

\* wg.Wait() after WalkDir returned.
SearchWgWait ==
    /\ Running /\ spc = "walk" /\ todo = <<>>
    /\ wg = 0
    /\ spc' = "wgResultWait"
    /\ UNCHANGED << others, inputs, cwd, proc,
                    todo, job, wg, wgResult, wpc, wjob, wres, kpc, kres, kgb,
                    ki, out, submitted, completed, opened, emitted, consumed, blames >>

\* wgResult.Wait(), then Search returns.
SearchWgResultWait ==
    /\ Running /\ spc = "wgResultWait"
    /\ wgResult = 0
    /\ spc' = "returned"
    /\ UNCHANGED << others, inputs, cwd, proc,
                    todo, job, wg, wgResult, wpc, wjob, wres, kpc, kres, kgb,
                    ki, out, submitted, completed, opened, emitted, consumed, blames >>

\* --------------------------------------------------------- searchWorker
\* The ignore test applied to directories only.
SkipsDirsOnly(path, isDir) == matcher # "nil" /\ Match(path, isDir) /\ isDir

\* The ignore test of searchWorker.
Skips(path, isDir) == matcher # "nil" /\ Match(path, isDir)

\* os.Stat of the job path, then the ignore filter.
WorkerStat(w) ==
    /\ Running /\ wpc[w] = "stat"
    /\ LET loc == Resolve(wjob[w]) IN
       IF ~StatOk(loc)
       THEN \* the message is printed and the worker returns
            /\ out' = Append(out, Item("diag", wjob[w], 0, "", "", <<>>))
            /\ wpc' = [wpc EXCEPT ![w] = "dead"]
            /\ UNCHANGED << wg, completed, wjob >>
       ELSE IF Skips(wjob[w], StatIsDir(loc))
       THEN /\ wg' = wg - 1
            /\ completed' = [completed EXCEPT ![wjob[w]] = @ + 1]
            /\ wpc' = [wpc EXCEPT ![w] = "recv"]
            /\ wjob' = [wjob EXCEPT ![w] = <<>>]
            /\ UNCHANGED out
       ELSE /\ wpc' = [wpc EXCEPT ![w] = "open"]
            /\ UNCHANGED << out, wg, completed, wjob >>
    /\ UNCHANGED << others, inputs, cwd, proc,
                    spc, todo, job, wgResult, wres, kpc, kres, kgb, ki,
                    submitted, opened, emitted, consumed, blames >>

\* The result is sent without being counted.
ResultAddMissing(c) == c

\* wgResult.Add(1)
ResultAdd(c) == c + 1

\* os.Open (log.Fatalf on failure) and the scan of the opened file; a
\* non-empty result is counted in wgResult before it is sent, an empty one
\* ends the job.
WorkerScan(w) ==
    /\ Running /\ wpc[w] = "open"
    /\ LET loc   == Resolve(wjob[w])
           lines == scanLines(FileLines(loc))
           res   == [Path |-> wjob[w], Lines |-> lines, src |-> loc]
       IN
       /\ opened' = opened \cup { wjob[w] }
       /\ IF ~OpenOk(loc)
          THEN /\ proc' = "exited"
               /\ UNCHANGED << wg, wgResult, wpc, wjob, wres, completed, emitted >>
          ELSE IF Len(lines) > 0
          THEN /\ wgResult' = ResultAdd(wgResult)
               /\ wres' = [wres EXCEPT ![w] = res]
               /\ emitted' = [emitted EXCEPT ![wjob[w]] = Append(@, res)]
               /\ wpc' = [wpc EXCEPT ![w] = "send"]
               /\ UNCHANGED << proc, wg, completed, wjob >>
          ELSE /\ wg' = wg - 1
               /\ completed' = [completed EXCEPT ![wjob[w]] = @ + 1]
               /\ wpc' = [wpc EXCEPT ![w] = "recv"]
               /\ wjob' = [wjob EXCEPT ![w] = <<>>]
               /\ UNCHANGED << proc, wgResult, wres, emitted >>
    /\ UNCHANGED << others, inputs, cwd, spc,
                    todo, job, kpc, kres, kgb, ki, out, submitted,
                    consumed, blames >>

\* The unbuffered searchResults channel: a worker's send meets the sink's receive.
ResultHandoff(w) ==
    /\ Running /\ wpc[w] = "send" /\ kpc = "recv"
    /\ kres' = wres[w]
    /\ kpc' = "header"
    /\ wres' = [wres EXCEPT ![w] = NoResult]
    /\ wpc' = [wpc EXCEPT ![w] = "done"]
    /\ UNCHANGED << others, inputs, cwd, proc,
                    spc, todo, job, wg, wgResult, wjob, kgb, ki, out,
                    submitted, completed, opened, emitted, consumed, blames >>

\* wg.Done() after the send.
WorkerDone(w) ==
    /\ Running /\ wpc[w] = "done"
    /\ wg' = wg - 1
    /\ completed' = [completed EXCEPT ![wjob[w]] = @ + 1]
    /\ wpc' = [wpc EXCEPT ![w] = "recv"]
    /\ wjob' = [wjob EXCEPT ![w] = <<>>]
    /\ UNCHANGED << others, inputs, cwd, proc,
                    spc, todo, job, wgResult, wres, kpc, kres, kgb, ki,
                    out, submitted, opened, emitted, consumed, blames >>

\* ---------------------------------------------------------- PrintResult
SinkHeader ==
    /\ Running /\ kpc = "header"
    /\ out' = Append(out, Item("header", kres.Path, Len(kres.Lines), "", "", <<>>))
    /\ kpc' = "blame"
    /\ UNCHANGED << others, inputs, cwd, proc,
                    spc, todo, job, wg, wgResult, wpc, wjob, wres, kres, kgb,
                    ki, submitted, completed, opened, emitted, consumed, blames >>

\* BlameFile(path): filepath.Abs, os.Chdir to the file's directory, git blame.
BlameFile(path) ==
    LET absolutePath == Resolve(path)
        chdirOk      == NodeAt(DirOf(absolutePath)).kind \in {"dir", "linkDir"}
        n            == NodeAt(absolutePath)
    IN  [cwd |-> IF chdirOk THEN DirOf(absolutePath) ELSE cwd,
         gb  |-> IF chdirOk /\ repo.found /\ n.kind = "reg" /\ n.tracked
                 THEN [err |-> FALSE, records |-> n.records, abs |-> absolutePath]
                 ELSE [err |-> TRUE, records |-> 0, abs |-> absolutePath]]

SinkBlame ==
    /\ Running /\ kpc = "blame"
    /\ LET r == BlameFile(kres.Path) IN
       /\ cwd' = r.cwd
       /\ kgb' = r.gb
       /\ blames' = Append(blames, [path |-> kres.Path, abs |-> r.gb.abs, err |-> r.gb.err])
    /\ ki' = 1
    /\ kpc' = "lines"
    /\ UNCHANGED << others, inputs, proc, spc,
                    todo, job, wg, wgResult, wpc, wjob, wres, kres, out,
                    submitted, completed, opened, emitted, consumed >>

\* The blame printed with a line: the record of the blamed file for that
\* line number, or none when BlameFile or BlameLine returned an error.
LineBlameOf(gb, n) ==
    IF ~gb.err /\ BlameLine(gb, n) # <<>> THEN BlameLine(gb, n) ELSE <<>>

\* The loop body without its else branch: a line is printed only with blame.
LineOutputBlamedOnly(path, line, gb) ==
    IF LineBlameOf(gb, line.n) = <<>> THEN <<>>
    ELSE << Item("line", path, line.n, line.tag, line.text, LineBlameOf(gb, line.n)) >>

\* What the loop body prints for one matched line.
LineOutput(path, line, gb) ==
    << Item("line", path, line.n, line.tag, line.text, LineBlameOf(gb, line.n)) >>

\* SinkLine with BlameFile called again for every line.
SinkLineBlames ==
    /\ Running /\ kpc = "lines" /\ ki <= Len(kres.Lines)
    /\ LET line == kres.Lines[ki]
       IN  out' = out \o LineOutput(kres.Path, line, kgb)
    /\ blames' = Append(blames, [path |-> kres.Path, abs |-> kgb.abs, err |-> kgb.err])
    /\ ki' = ki + 1
    /\ UNCHANGED << others, inputs, cwd, proc,
                    spc, todo, job, wg, wgResult, wpc, wjob, wres, kpc, kres,
                    kgb, submitted, completed, opened, emitted, consumed >>

\* One iteration of the loop over result.Lines.
SinkLine ==
    /\ Running /\ kpc = "lines" /\ ki <= Len(kres.Lines)
    /\ LET line == kres.Lines[ki]
       IN  out' = out \o LineOutput(kres.Path, line, kgb)
    /\ ki' = ki + 1
    /\ UNCHANGED << others, inputs, cwd, proc,
                    spc, todo, job, wg, wgResult, wpc, wjob, wres, kpc, kres,
                    kgb, submitted, completed, opened, emitted, consumed, blames >>

\* The blank line after the block and wgResult.Done().
SinkDone ==
    /\ Running /\ kpc = "lines" /\ ki > Len(kres.Lines)
    /\ out' = Append(out, Item("blank", kres.Path, 0, "", "", <<>>))
    /\ wgResult' = wgResult - 1
    /\ consumed' = [consumed EXCEPT ![kres.Path] = @ + 1]
    /\ kpc' = "recv"
    /\ kres' = NoResult
    /\ kgb' = NoBlame
    /\ ki' = 1
    /\ UNCHANGED << others, inputs, cwd, proc,
                    spc, todo, job, wg, wpc, wjob, wres, submitted, completed,
                    opened, emitted, blames >>

\* ------------------------------------------------------------ the inputs
\* d/g is visited first, then g, then h.  g under d shadows the root's g
\* once the working directory is d.
OneTodo   == << Tagged("TODO", "x") >>
TwoTags   == << TextLine, Tagged("FIXME", "y"), Tagged("TODO", "z") >>
BinAfter  == << Tagged("TODO", "x"), BinLine, Tagged("TODO", "z") >>
DNodes  == { Absent, Dir, DirNoRead }
DGNodes == { Reg(OneTodo, Len(OneTodo)), BrokenLink, RegNoRead(OneTodo),
             Untracked(OneTodo) }
\* The blame of TwoTags reports two lines only: its line 3 is out of range.
GNodes  == { Reg(TwoTags, Len(TwoTags) - 1), Reg(<< TextLine >>, Len(<< TextLine >>)),
             Reg(BinAfter, Len(BinAfter)), DirLink, Absent }
HNodes  == { Reg(OneTodo, Len(OneTodo)), BrokenLink, RegNoRead(OneTodo), Absent }

Trees == { [l \in Locs |->
              CASE l = <<>>         -> Dir
                [] l = <<"d">>      -> nd
                [] l = <<"d", "g">> -> IF nd = Dir THEN ndg ELSE Absent
                [] l = <<"g">>      -> ng
                [] l = <<"h">>      -> nh] :
           nd \in DNodes, ndg \in DGNodes, ng \in GNodes, nh \in HNodes }

\* The path argument: the directory, or the single file g.
Roots == { <<>>, <<"g">> }

Repos == { [found |-> FALSE, pats |-> {}],
           [found |-> TRUE, pats |-> {}],
           [found |-> TRUE, pats |-> { <<"g">> }] }

\* The state Search starts from, for the inputs of main.
Started ==
    /\ cwd = <<>>
    /\ proc = "running"
    /\ spc = "walk"
    /\ todo = IF IsPresent(root)
              THEN << [path |-> root, isDir |-> NodeAt(root).kind = "dir"] >>
              ELSE <<>>
    /\ job = <<>>
    /\ wg = 0
    /\ wgResult = 0
    /\ wpc = [w \in Workers |-> IF w <= nWorkers THEN "recv" ELSE "none"]
    /\ wjob = [w \in Workers |-> <<>>]
    /\ wres = [w \in Workers |-> NoResult]
    /\ kpc = "recv"
    /\ kres = NoResult
    /\ kgb = NoBlame
    /\ ki = 1
    /\ out = <<>>
    /\ submitted = <<>>
    /\ completed = [l \in Locs |-> 0]
    /\ opened = {}
    /\ emitted = [l \in Locs |-> <<>>]
    /\ consumed = [l \in Locs |-> 0]
    /\ blames = <<>>

PipeInit ==
    /\ tree \in Trees
    /\ root \in Roots
    /\ rootAbs \in BOOLEAN
    /\ repo \in Repos
    /\ nWorkers \in 1 .. MaxWorkers
    /\ matcher = loadGitignore(repo)
    /\ Started

\* No pipeline: nothing to scan, Search not entered.
PipeIdle ==
    /\ tree = [l \in Locs |-> Absent]
    /\ root = <<>>
    /\ rootAbs = TRUE
    /\ repo = [found |-> FALSE, pats |-> {}]
    /\ nWorkers = 1
    /\ matcher = "nil"
    /\ Started

TwiceIdle == run = 1 /\ prev = {}
ScanIdle  == sIn = <<>> /\ sPos = 1 /\ sLine = 1 /\ sLines = <<>> /\ sPc = "idle"
BlameIdle == bGb = NoBlame /\ bLines = <<>> /\ bI = 1 /\ bOut = <<>> /\ bPc = "idle"
ParseIdle == pIn = <<>> /\ pPos = 1 /\ pCur = NoLineBlame /\ pBlames = <<>>
             /\ pChan = <<>> /\ pPc = "idle"
FileIdle  == fPc = "idle" /\ fWg = 0 /\ fErr = FALSE /\ fBlames = <<>>
             /\ gPc = "idle" /\ gWritten = 0 /\ gFail = FALSE
ArgsIdle  == aTags = <<>> /\ aPc = "idle" /\ aErr = FALSE /\ aUsage = FALSE
             /\ aSearch = FALSE

Init == PipeInit /\ TwiceIdle /\ ScanIdle /\ ArgsIdle /\ BlameIdle /\ ParseIdle /\ FileIdle

PipeNext ==
    \/ WalkVisit
    \/ SearchWgWait
    \/ SearchWgResultWait
    \/ SinkHeader
    \/ SinkBlame
    \/ SinkLine
    \/ SinkDone
    \/ \E w \in Workers : JobHandoff(w)
    \/ \E w \in Workers : WorkerStat(w)
    \/ \E w \in Workers : WorkerScan(w)
    \/ \E w \in Workers : ResultHandoff(w)
    \/ \E w \in Workers : WorkerDone(w)

Next == PipeNext

\* One run of Search, every interleaving of walker, workers and sink.
Spec == Init /\ [][Next]_vars

\* The Go scheduler runs every goroutine that can take a step: the goroutine
\* of Search, each worker and the sink; a send and a receive that both wait
\* on an unbuffered channel meet.
Fairness ==
    /\ WF_vars(WalkVisit)
    /\ WF_vars(SearchWgWait)
    /\ WF_vars(SearchWgResultWait)
    /\ WF_vars(SinkHeader)
    /\ WF_vars(SinkBlame)
    /\ WF_vars(SinkLine)
    /\ WF_vars(SinkDone)
    /\ WF_vars(\E w \in Workers : JobHandoff(w))
    /\ WF_vars(\E w \in Workers : ResultHandoff(w))
    /\ \A w \in Workers : WF_vars(WorkerStat(w))
    /\ \A w \in Workers : WF_vars(WorkerScan(w))
    /\ \A w \in Workers : WF_vars(WorkerDone(w))

\* One run of Search under that scheduling.
SpecFair == Init /\ [][Next]_vars /\ Fairness

\* ------------------------------------------------- two runs on one tree
\* The (path, line number, tag, text) tuples presented so far.
Tuples == { << out[o].path, out[o].n, out[o].tag, out[o].text >> :
            o \in { i \in DOMAIN out : out[i].k = "line" } }

\* The run is over: Search returned, log.Fatalf ended the process, or no
\* goroutine can take a step any more.
RunOver == spc = "returned" \/ proc = "exited" \/ ~ENABLED PipeNext

\* The program is started again on the same tree, in the same directory, with
\* the same arguments but for the worker count.
Rerun ==
    /\ run = 1 /\ RunOver
    /\ run' = 2
    /\ prev' = Tuples
    /\ UNCHANGED << tree, root, rootAbs, repo, matcher >>
    /\ nWorkers' \in 1 .. MaxWorkers
    /\ cwd' = <<>>
    /\ proc' = "running"
    /\ spc' = "walk"
    /\ todo' = IF IsPresent(root)
               THEN << [path |-> root, isDir |-> NodeAt(root).kind = "dir"] >>
               ELSE <<>>
    /\ job' = <<>>
    /\ wg' = 0
    /\ wgResult' = 0
    /\ wpc' = [w \in Workers |-> IF w <= nWorkers' THEN "recv" ELSE "none"]
    /\ wjob' = [w \in Workers |-> <<>>]
    /\ wres' = [w \in Workers |-> NoResult]
    /\ kpc' = "recv"
    /\ kres' = NoResult
    /\ kgb' = NoBlame
    /\ ki' = 1
    /\ out' = <<>>
    /\ submitted' = <<>>
    /\ completed' = [l \in Locs |-> 0]
    /\ opened' = {}
    /\ emitted' = [l \in Locs |-> <<>>]
    /\ consumed' = [l \in Locs |-> 0]
    /\ blames' = <<>>
    /\ UNCHANGED << scanVars, argVars, blameVars, parseVars, fileVars >>

NextTwice == Next \/ Rerun

SpecTwice == Init /\ [][NextTwice]_vars

\* ------------------------------------------------- the scan loop alone
LineClasses == { "text", "match", "bin", "long" }

\* Every file of at most MaxLines lines; a matching line carries its own
\* position as its text.
ScanInputs ==
    UNION { { [i \in 1 .. n |-> Line(c[i], IF c[i] = "match" THEN "TODO" ELSE "", i)] :
              c \in [1 .. n -> LineClasses] } : n \in 0 .. MaxLines }

ScanInit ==
    /\ sIn \in ScanInputs
    /\ sPos = 1
    /\ sLine = 1
    /\ sLines = <<>>
    /\ sPc = "scan"

\* scanner.Scan() returned true: one iteration of the loop.
ScanIteration ==
    /\ sPc = "scan" /\ ScanOk(sIn, sPos)
    /\ LET it == ScanToken(sIn[sPos], sLine, sLines) IN
       /\ sPos' = IF it.stop THEN sPos ELSE sPos + 1
       /\ sLine' = it.line
       /\ sLines' = it.lines
       /\ sPc' = IF it.stop THEN "end" ELSE "scan"
    /\ UNCHANGED sIn

\* scanner.Scan() returned false: end of file, or a line over the limit.
ScanEOF ==
    /\ sPc = "scan" /\ ~ScanOk(sIn, sPos)
    /\ sPc' = "end"
    /\ UNCHANGED << sIn, sPos, sLine, sLines >>

pipeVars == << tree, root, rootAbs, repo, nWorkers, matcher, cwd, proc, spc,
               todo, job, wg, wgResult, wpc, wjob, wres, kpc, kres, kgb, ki,
               out, submitted, completed, opened, emitted, consumed, blames >>

InitScan == PipeIdle /\ TwiceIdle /\ ScanInit /\ ArgsIdle /\ BlameIdle /\ ParseIdle /\ FileIdle

NextScan ==
    \/ ScanIteration /\ UNCHANGED << pipeVars, twiceVars, argVars, blameVars, parseVars, fileVars >>
    \/ ScanEOF /\ UNCHANGED << pipeVars, twiceVars, argVars, blameVars, parseVars, fileVars >>

SpecScan == InitScan /\ [][NextScan]_vars

\* ------------------------------------------- main of the front end
\* A tag is a sequence of characters, told apart by class: a letter or
\* digit, the underscore, anything else.
CharClasses == { "alnum", "underscore", "other" }
TagsUpTo(n) == UNION { [1 .. k -> CharClasses] : k \in 0 .. n }
TagLists    == UNION { [1 .. k -> TagsUpTo(MaxTagLen)] : k \in 0 .. MaxTags }

\* tagValRegex, ^(\w+)$: one or more of [0-9A-Za-z_].
tagValRegex(tag) ==
    Len(tag) >= 1 /\ \A i \in DOMAIN tag : tag[i] \in {"alnum", "underscore"}

\* validateTags: TRUE when it returns an error.
validateTags(tags) == \E i \in DOMAIN tags : ~tagValRegex(tags[i])

ArgsInit ==
    /\ aTags \in TagLists
    /\ aPc = "parse"
    /\ aErr = FALSE
    /\ aUsage = FALSE
    /\ aSearch = FALSE

\* parser.Parse(os.Args) runs Validate on the values of a given option; on
\* an error main prints the usage and goes on.
MainParse ==
    /\ aPc = "parse"
    /\ aErr' = (aTags # <<>> /\ validateTags(aTags))
    /\ aUsage' = aErr'
    /\ aPc' = "params"
    /\ UNCHANGED << aTags, aSearch, pipeVars, twiceVars, scanVars, blameVars, parseVars, fileVars >>

\* pretty.GetStyle and search.NewSearchParams: either returns an error
\* (log.Fatal) or main goes on to Search.
MainParams ==
    /\ aPc = "params"
    /\ \E failed \in BOOLEAN : aPc' = IF failed THEN "fatal" ELSE "search"
    /\ UNCHANGED << aTags, aErr, aUsage, aSearch, pipeVars, twiceVars, scanVars, blameVars, parseVars, fileVars >>

\* search.Search(params)
MainSearch ==
    /\ aPc = "search"
    /\ aSearch' = TRUE
    /\ aPc' = "end"
    /\ UNCHANGED << aTags, aErr, aUsage, pipeVars, twiceVars, scanVars, blameVars, parseVars, fileVars >>

InitArgs == PipeIdle /\ TwiceIdle /\ ScanIdle /\ ArgsInit /\ BlameIdle /\ ParseIdle /\ FileIdle

NextArgs == MainParse \/ MainParams \/ MainSearch

SpecArgs == InitArgs /\ [][NextArgs]_vars

\* ------------------------------- the loop of PrintResult over the lines
MaxRecords == 2

\* What BlameFile can return for a file g: an error, or the records of a
\* file of up to MaxRecords lines.
BlameResults ==
    { NoBlame } \cup { [err |-> FALSE, records |-> L, abs |-> << "g" >>] : L \in 0 .. MaxRecords }

\* The line numbers BlameLine is asked for: from below the first line to
\* beyond the last record.
LineNumbers == -1 .. MaxRecords + 1

\* The results of up to two matched lines.
ResultLines ==
    UNION { [1 .. k -> { MatchLine(n, Tagged("TODO", "x")) : n \in LineNumbers }] : k \in 0 .. 2 }

BlameLoopInit ==
    /\ bGb \in BlameResults
    /\ bLines \in ResultLines
    /\ bI = 1
    /\ bOut = <<>>
    /\ bPc = "loop"

\* One iteration of the loop over result.Lines.
BlameLoopLine ==
    /\ bPc = "loop" /\ bI <= Len(bLines)
    /\ bOut' = bOut \o LineOutput(<< "g" >>, bLines[bI], bGb)
    /\ bI' = bI + 1
    /\ UNCHANGED << bGb, bLines, bPc >>

\* The loop is over.
BlameLoopEnd ==
    /\ bPc = "loop" /\ bI > Len(bLines)
    /\ bPc' = "end"
    /\ UNCHANGED << bGb, bLines, bI, bOut >>

InitBlameLoop == PipeIdle /\ TwiceIdle /\ ScanIdle /\ ArgsIdle /\ BlameLoopInit /\ ParseIdle /\ FileIdle

NextBlameLoop ==
    \/ BlameLoopLine /\ UNCHANGED << pipeVars, twiceVars, scanVars, argVars, parseVars, fileVars >>
    \/ BlameLoopEnd /\ UNCHANGED << pipeVars, twiceVars, scanVars, argVars, parseVars, fileVars >>

SpecBlameLoop == InitBlameLoop /\ [][NextBlameLoop]_vars

\* ---------------------------------------------------- parseGitBlame
MaxStream == 4

\* The lines of git blame --line-porcelain, by what the parser tells apart:
\* an author line (its name short, or longer than maxAuthorLength), an
\* author-time line whose value ParseInt accepts (two values) or rejects, any
\* other line, and a line over the scanner's token limit.
StreamLine(cls) ==
    [cls |-> cls,
     ts |-> IF cls = "time1" THEN 1 ELSE IF cls = "time2" THEN 2 ELSE 0]

\* strings.TrimPrefix(buf, "author ") for the author line at position i:
\* the names of different lines are told apart by the position.
AuthorName(ls, i) ==
    [id |-> i, form |-> IF ls[i].cls = "authorLong" THEN "long" ELSE "short"]

StreamClasses == { "author", "authorLong", "time1", "time2", "timeBad", "other", "long" }

\* The streams of up to MaxStream lines of the classes C.
StreamsOver(C) ==
    UNION { [1 .. n -> { StreamLine(c) : c \in C }] : n \in 0 .. MaxStream }

Streams == StreamsOver(StreamClasses)

\* strings.HasPrefix(buf, "author ") and strings.HasPrefix(buf, "author-time ").
IsAuthor(buf)     == buf.cls \in { "author", "authorLong" }
IsAuthorTime(buf) == buf.cls \in { "time1", "time2", "timeBad" }
\* strconv.ParseInt returned no error.
ParseIntOk(buf)   == buf.cls \in { "time1", "time2" }

\* truncateName: a name within maxAuthorLength is kept, a longer one has
\* words replaced by their initials.
truncateName(name) ==
    IF name.form = "long" THEN [name EXCEPT !.form = "abbreviated"] ELSE name

\* blames with currentBlame appended when it is not nil.
AppendCurrent(bl, cur) == IF cur.nil THEN bl ELSE Append(bl, cur)

ParseInit ==
    /\ pIn \in Streams
    /\ pPos = 1
    /\ pCur = NoLineBlame
    /\ pBlames = <<>>
    /\ pChan = <<>>
    /\ pPc = "scan"

\* s.Scan() returned true: one iteration of the loop.
ParseLine ==
    /\ pPc = "scan" /\ ScanOk(pIn, pPos)
    /\ LET buf == pIn[pPos] IN
       IF IsAuthor(buf)
       THEN /\ pBlames' = AppendCurrent(pBlames, pCur)
            /\ pCur' = [nil |-> FALSE, Author |-> truncateName(AuthorName(pIn, pPos)),
                         Timestamp |-> 0]
       ELSE /\ pCur' = IF IsAuthorTime(buf) /\ ~pCur.nil /\ ParseIntOk(buf)
                       THEN [pCur EXCEPT !.Timestamp = buf.ts]
                       ELSE pCur
            /\ UNCHANGED pBlames
    /\ pPos' = pPos + 1
    /\ UNCHANGED << pIn, pChan, pPc >>

\* s.Scan() returned false: the last entry is appended.
ParseFlush ==
    /\ pPc = "scan" /\ ~ScanOk(pIn, pPos)
    /\ pBlames' = AppendCurrent(pBlames, pCur)
    /\ pPc' = "send"
    /\ UNCHANGED << pIn, pPos, pCur, pChan >>

\* make(chan []*LineBlame, 1) in BlameFile.
blameChannelCap == 1

\* ParseSend on a channel without buffer: the send waits for the receive.
ParseSendUnbuffered ==
    /\ pPc = "send" /\ fPc = "recv"
    /\ pChan' = Append(pChan, pBlames)
    /\ pPc' = "end"
    /\ UNCHANGED << pIn, pPos, pCur, pBlames >>

\* blameChannel <- blames: the send goes through when the buffer has room.
ParseSend ==
    /\ pPc = "send" /\ Len(pChan) < blameChannelCap
    /\ pChan' = Append(pChan, pBlames)
    /\ pPc' = "end"
    /\ UNCHANGED << pIn, pPos, pCur, pBlames >>

InitParse == PipeIdle /\ TwiceIdle /\ ScanIdle /\ ArgsIdle /\ BlameIdle /\ ParseInit /\ FileIdle

NextParse ==
    \/ ParseLine /\ UNCHANGED << pipeVars, twiceVars, scanVars, argVars, blameVars, fileVars >>
    \/ ParseFlush /\ UNCHANGED << pipeVars, twiceVars, scanVars, argVars, blameVars, fileVars >>
    \/ ParseSend /\ UNCHANGED << pipeVars, twiceVars, scanVars, argVars, blameVars, fileVars >>

SpecParse == InitParse /\ [][NextParse]_vars

\* ------------------------------------- BlameFile from cmd.Start on
\* The lines the pipe between git and the parser holds unread before a
\* further write blocks.
PipeCap == 2

\* What git prints: the streams of author lines, author-time lines and
\* over-long lines.
GitOutputs == StreamsOver({ "author", "time1", "long" })

\* What no step of BlameFile, the parser or git touches.
idleVars == << pipeVars, twiceVars, scanVars, argVars, blameVars >>

\* cmd.Start() has succeeded, the channel and the WaitGroup are made, the
\* parser goroutine is started and BlameFile is in wg.Wait().
BlameFileInit ==
    /\ pIn \in GitOutputs
    /\ pPos = 1
    /\ pCur = NoLineBlame
    /\ pBlames = <<>>
    /\ pChan = <<>>
    /\ pPc = "scan"
    /\ fPc = "wgWait"
    /\ fWg = 1
    /\ fErr = FALSE
    /\ fBlames = <<>>
    /\ gPc = "running"
    /\ gWritten = 0
    /\ gFail \in BOOLEAN

\* git writes its next line; the write blocks while the pipe is full.
GitWrite ==
    /\ gPc = "running" /\ gWritten < Len(pIn)
    /\ gWritten - (pPos - 1) < PipeCap
    /\ gWritten' = gWritten + 1
    /\ UNCHANGED << fPc, fWg, fErr, fBlames, gPc, gFail, parseVars, idleVars >>

\* git has written everything and exits, which closes its end of the pipe.
GitExit ==
    /\ gPc = "running" /\ gWritten = Len(pIn)
    /\ gPc' = "exited"
    /\ UNCHANGED << fPc, fWg, fErr, fBlames, gWritten, gFail, parseVars, idleVars >>

\* The parser reads a line git has written.
ParserLine ==
    /\ pPos <= gWritten
    /\ ParseLine
    /\ UNCHANGED << fileVars, idleVars >>

\* s.Scan() returns false: on an over-long line, or at the end of the
\* output once git has closed the pipe.
ParserFlush ==
    /\ pPos <= gWritten \/ gPc = "exited"
    /\ ParseFlush
    /\ UNCHANGED << fileVars, idleVars >>

ParserSend ==
    /\ ParseSend
    /\ UNCHANGED << fileVars, idleVars >>

\* defer wg.Done() of the parser goroutine.
ParserDone ==
    /\ pPc = "end" /\ fWg > 0
    /\ fWg' = fWg - 1
    /\ UNCHANGED << fPc, fErr, fBlames, gPc, gWritten, gFail, parseVars, idleVars >>

\* wg.Wait() in BlameFile.
FileWgWait ==
    /\ fPc = "wgWait" /\ fWg = 0
    /\ fPc' = "cmdWait"
    /\ UNCHANGED << fWg, fErr, fBlames, gPc, gWritten, gFail, parseVars, idleVars >>

\* cmd.Wait(): returns when git has exited; a non-zero status is the error
\* BlameFile returns.
FileCmdWait ==
    /\ fPc = "cmdWait" /\ gPc = "exited"
    /\ fErr' = gFail
    /\ fPc' = IF gFail THEN "returned" ELSE "recv"
    /\ UNCHANGED << fWg, fBlames, gPc, gWritten, gFail, parseVars, idleVars >>

\* blames := <-blameChannel, and the return.
FileReceive ==
    /\ fPc = "recv" /\ pChan # <<>>
    /\ fBlames' = Head(pChan)
    /\ pChan' = Tail(pChan)
    /\ fPc' = "returned"
    /\ UNCHANGED << fWg, fErr, gPc, gWritten, gFail, pIn, pPos, pCur, pBlames, pPc, idleVars >>

InitBlameFile == PipeIdle /\ TwiceIdle /\ ScanIdle /\ ArgsIdle /\ BlameIdle /\ BlameFileInit

NextBlameFile ==
    \/ GitWrite
    \/ GitExit
    \/ ParserLine
    \/ ParserFlush
    \/ ParserSend
    \/ ParserDone
    \/ FileWgWait
    \/ FileCmdWait
    \/ FileReceive

\* git runs while its write does not block, and the Go scheduler runs the
\* parser goroutine and the caller whenever they can take a step.
FairBlameFile ==
    /\ WF_vars(GitWrite) /\ WF_vars(GitExit)
    /\ WF_vars(ParserLine) /\ WF_vars(ParserFlush) /\ WF_vars(ParserSend)
    /\ WF_vars(ParserDone)
    /\ WF_vars(FileWgWait) /\ WF_vars(FileCmdWait) /\ WF_vars(FileReceive)

SpecBlameFile == InitBlameFile /\ [][NextBlameFile]_vars /\ FairBlameFile

\* ======================================================= the claims
Printed(p, m, by) ==
    \E o \in DOMAIN out : out[o] = Item("line", p, m.n, m.tag, m.text, by)

PrintedLine(p, m) ==
    \E o \in DOMAIN out :
        /\ out[o].k = "line" /\ out[o].path = p
        /\ out[o].n = m.n /\ out[o].tag = m.tag /\ out[o].text = m.text

Blamed(p) == \E b \in DOMAIN blames : blames[b].path = p

\* The job of path p is still with the walker or with a live worker.
InHand(p) ==
    \/ spc = "send" /\ job = p
    \/ \E w \in Workers : wpc[w] \in {"stat", "open", "send", "done"} /\ wjob[w] = p

\* C1: when Search has returned, every submitted job has been marked
\* complete and every emitted result has gone through the sink: blame
\* attempted, all its lines printed, wgResult decremented for it; no result
\* is then waiting on the channel or in the sink's hands.
C1_ReturnsDrained ==
    spc = "returned" =>
        /\ \A i \in DOMAIN submitted : completed[submitted[i]] = 1
        /\ \A p \in Locs :
              /\ consumed[p] = Len(emitted[p])
              /\ \A j \in DOMAIN emitted[p] :
                    /\ Blamed(p)
                    /\ \A m \in DOMAIN emitted[p][j].Lines :
                          PrintedLine(p, emitted[p][j].Lines[m])
        /\ kpc = "recv"
        /\ \A w \in Workers : wpc[w] # "send"

C1_Witness ==
    /\ spc = "returned"
    /\ emitted[<<"d", "g">>] # <<>> /\ emitted[<<"g">>] # <<>>
    /\ emitted[<<"h">>] # <<>>

\* C2 (as claimed): every job a worker has finished with, a job whose stat
\* failed included, has been marked complete exactly once.
C2_EveryJobDoneOnce ==
    \A i \in DOMAIN submitted :
        /\ completed[submitted[i]] <= 1
        /\ ~InHand(submitted[i]) => completed[submitted[i]] = 1

\* C3 (as claimed): a stat or open failure neither ends the process nor
\* costs the pool a worker.
C3_FailuresContained ==
    /\ proc = "running"
    /\ \A w \in Workers : w <= nWorkers => wpc[w] # "dead"

\* The file the walker visited under the path p, and what a scan of it finds.
VisitedLines(p) == scanLines(FileLines(p))

\* C4 (as claimed): when Search has returned from a run without stat or open
\* failure, the results handed to the sink are exactly one per visited,
\* non-ignored file with a match before its first non-text line, holding
\* that file's matches.
C4_ExactlyTheMatchingFiles ==
    (spc = "returned" /\ proc = "running" /\ \A w \in Workers : wpc[w] # "dead") =>
        \A p \in Locs :
            IF /\ \E i \in DOMAIN submitted : submitted[i] = p
               /\ ~Skips(p, StatIsDir(p))
               /\ Len(VisitedLines(p)) > 0
            THEN /\ Len(emitted[p]) = 1
                 /\ emitted[p][1].Lines = VisitedLines(p)
            ELSE emitted[p] = <<>>

\* C5: a job is skipped (completed without os.Open, no result) exactly when
\* a matcher was loaded and reports its path; without a repository the
\* matcher is nil and no job is skipped.
C5_IgnoreFilter ==
    /\ \A i \in DOMAIN submitted :
          LET p == submitted[i]
              ignored == repo.found /\ p \in repo.pats
          IN  /\ ignored => p \notin opened /\ emitted[p] = <<>>
              /\ completed[p] >= 1 => (p \notin opened <=> ignored)
              /\ (ignored /\ ~InHand(p)) => completed[p] = 1
    /\ ~repo.found => matcher = "nil"

C5_Witness ==
    /\ repo.found /\ <<"g">> \in repo.pats
    /\ completed[<<"g">>] = 1 /\ <<"g">> \notin opened
    /\ completed[<<"h">>] = 1 /\ <<"h">> \in opened

\* C6: a result whose BlameFile call returned an error and that the sink has
\* finished has all its lines printed, none with blame, and was counted as
\* consumed once; the sink is then receiving again or at work on a later
\* result, and the process runs on.
C6_BlameFailureSoft ==
    \A b \in DOMAIN blames :
        LET p == blames[b].path IN
        (blames[b].err /\ (kres.Path # p \/ kpc = "recv")) =>
            /\ consumed[p] = 1
            /\ \A m \in DOMAIN emitted[p][1].Lines :
                  Printed(p, emitted[p][1].Lines[m], <<>>)
            /\ \A o \in DOMAIN out : out[o].path = p => out[o].by = <<>>

C6_Witness ==
    /\ Len(blames) = 2
    /\ blames[1].err /\ ~blames[2].err
    /\ consumed[blames[1].path] = 1 /\ consumed[blames[2].path] = 1
    /\ proc = "running"

\* The files below the root that the traversal can read its way to.
Readable(l) ==
    /\ IsPresent(l) /\ NodeAt(l).kind # "dir"
    /\ Len(l) >= Len(root) /\ SubSeq(l, 1, Len(root)) = root
    /\ \A n \in Len(root) .. Len(l) - 1 : ReadDirOk(SubSeq(l, 1, n))

WalkOver == spc \in {"wgResultWait", "returned"} \/ (spc = "walk" /\ todo = <<>>)

\* C7 (as claimed): an entry the traversal cannot read is skipped and the
\* traversal goes on: once WalkDir is over, every other file it can reach
\* has been submitted.
C7_TraversalContinues ==
    WalkOver => \A l \in Locs : Readable(l) => \E i \in DOMAIN submitted : submitted[i] = l

\* C9 (as claimed): two runs on the same unmodified tree with the same
\* configuration present the same set of (path, line number, tag, text)
\* tuples, whatever the interleavings and the worker counts.
C9_SameTuplesEveryRun ==
    (run = 2 /\ RunOver) => Tuples = prev

\* C10: the line numbers of a result are strictly increasing, each is the
\* 1-based position of the matching line it was read from, and each lies
\* within the file.
C10_LineOrder ==
    /\ \A i \in DOMAIN sLines : \A j \in DOMAIN sLines :
          i < j => sLines[i].n < sLines[j].n
    /\ \A i \in DOMAIN sLines :
          /\ sLines[i].n \in 1 .. Len(sIn)
          /\ sIn[sLines[i].n].cls = "match"
          /\ sLines[i].text = sIn[sLines[i].n].text
          /\ sLines[i].tag = sIn[sLines[i].n].tag

C10_Witness ==
    /\ sPc = "end" /\ Len(sIn) = 3
    /\ sIn[1].cls = "text"
    /\ Len(sLines) = 2 /\ sLines[1].n = 2 /\ sLines[2].n = 3

\* A tag that is empty or holds a character that is no letter or digit.
InvalidTag(tag) == Len(tag) = 0 \/ \E i \in DOMAIN tag : tag[i] # "alnum"

\* C8 (as claimed): with an empty tag or a tag holding a non-alphanumeric
\* character, argument handling reports the error and Search is never
\* invoked.
C8_InvalidTagsFatal ==
    (aPc \in {"params", "search", "fatal", "end"}
        /\ \E i \in DOMAIN aTags : InvalidTag(aTags[i]))
    => (aUsage /\ ~aSearch /\ aPc # "search")

\* The positions of the lines of the scanned input sniffed as non-text, and
\* the positions the scanner delivers no line from.
BinAt == { i \in DOMAIN sIn : sIn[i].cls = "bin" }
EndAt == { i \in DOMAIN sIn : sIn[i].cls \in { "bin", "long" } }
Before(S, i) == \A j \in S : i < j

\* C11: every matched line of a scan has a line number below the position
\* of the first non-text line; once the scan is over, the matching lines the
\* scanner delivered before that line are all in the result; a file whose
\* first line is non-text yields no matched line, whatever follows.
C11_BinaryStop ==
    /\ \A k \in DOMAIN sLines : Before(BinAt, sLines[k].n)
    /\ sPc = "end" =>
          \A i \in DOMAIN sIn :
             (sIn[i].cls = "match" /\ Before(EndAt, i))
                => \E k \in DOMAIN sLines : sLines[k].n = i
    /\ (sPc = "end" /\ Len(sIn) > 0 /\ sIn[1].cls = "bin") => sLines = <<>>

C11_Witness ==
    /\ sPc = "end" /\ Len(sIn) = 3
    /\ sIn[1].cls = "match" /\ sIn[2].cls = "bin" /\ sIn[3].cls = "match"
    /\ Len(sLines) = 1 /\ sLines[1].n = 1

\* The items of kind k printed before position j.
PrintedBefore(j, k) == { i \in 1 .. j - 1 : out[i].k = k }

\* C12 (as claimed): the block printed for one file (header, matched lines,
\* blank line) is contiguous: no diagnostic of a worker stands between the
\* header and the blank line of a block, so every block begun before a
\* diagnostic is also ended before it.
C12_BlocksUnbroken ==
    \A j \in DOMAIN out :
       out[j].k = "diag"
          => Cardinality(PrintedBefore(j, "header")) = Cardinality(PrintedBefore(j, "blank"))

\* A tree in which every stat and every open succeeds: no dangling link, no
\* file that cannot be opened.
TreeSound == \A l \in Locs : tree[l].kind # "linkBroken" /\ tree[l].readable

\* C13 (as claimed): on a tree in which every stat and every open succeeds,
\* with any number of workers and fair scheduling, Search eventually
\* returns: no state before the return is a deadlock, some goroutine can
\* always take a step until Search has returned.
C13_Terminates ==
    (TreeSound /\ spc # "returned") => ENABLED Next

\* C14 (as claimed): the working directory of the process is the one the
\* run started in, in every state: no step of the sink changes what a
\* relative path names for the walker or for a worker.
C14_WorkingDirectoryKept ==
    /\ cwd = <<>>
    /\ \A l \in Locs : Resolve(l) = IF rootAbs THEN l ELSE <<>> \o l

\* The number of jobs marked complete so far.
RECURSIVE CompletedIn(_)
CompletedIn(S) ==
    IF S = {} THEN 0
    ELSE LET l == CHOOSE x \in S : TRUE IN completed[l] + CompletedIn(S \ {l})

\* A job is waiting on the channel or in the hands of a worker.
JobPending ==
    \/ spc = "send"
    \/ \E w \in Workers : wpc[w] \in { "stat", "open", "send", "done" }

\* C15: the pending-job counter is the number of jobs the walker has begun
\* to submit minus the number marked complete; it is never negative, and it
\* is positive whenever a job waits to be received or is being processed.
C15_PendingJobs ==
    /\ wg = Len(submitted) - CompletedIn(Locs)
    /\ wg >= 0
    /\ JobPending => wg > 0

C15_Witness ==
    /\ spc = "send" /\ wg = 2
    /\ CompletedIn(Locs) = 1
    /\ \E w \in Workers : wpc[w] = "open"

\* C16 (as claimed): every job the walker submits is for a regular file:
\* never for a directory, never for a symbolic link (dangling or to a
\* directory) or another entry that is no regular file.
C16_RegularFilesOnly ==
    \A i \in DOMAIN submitted : NodeAt(submitted[i]).kind = "reg"

\* The BlameFile invocations made for path p so far.
BlamesOf(p) == { b \in DOMAIN blames : blames[b].path = p }

\* The sink holds a result of path p that it has blamed already.
PastBlame(p) == kpc = "lines" /\ kres.Path = p

\* C17: BlameFile is invoked once per result, by the sink, after the result
\* was received and before any of its lines is printed: for every path the
\* invocations so far are one per result consumed or being printed; a file
\* without an emitted result is never blamed; no line of the result in the
\* sink's hands is printed before its blame; when Search has returned the
\* invocations are as many as the results emitted.
C17_OneBlamePerResult ==
    /\ \A p \in Locs :
          /\ Cardinality(BlamesOf(p)) = consumed[p] + (IF PastBlame(p) THEN 1 ELSE 0)
          /\ Cardinality(BlamesOf(p)) <= Len(emitted[p])
          /\ (\E o \in DOMAIN out : out[o].k = "line" /\ out[o].path = p) => Blamed(p)
    /\ kpc \in { "header", "blame" } =>
          ~\E o \in DOMAIN out : out[o].k = "line" /\ out[o].path = kres.Path
    /\ spc = "returned" =>
          \A p \in Locs : Cardinality(BlamesOf(p)) = Len(emitted[p])

C17_Witness ==
    /\ spc = "returned" /\ Len(blames) = 2
    /\ \E p \in Locs : emitted[p] # <<>> /\ Len(emitted[p][1].Lines) = 2

\* C18: BlameLine(n) on a blame of L records gives record n when
\* 1 <= n <= L and an error otherwise, never some other record: in the loop
\* of the sink a line whose number is out of range is printed without
\* blame, the lines of the same result that are in range are printed with
\* their own record, and every line of the result is printed.
C18_BlameLineLookup ==
    /\ Len(bOut) = bI - 1
    /\ \A o \in DOMAIN bOut :
          /\ bOut[o].k = "line" /\ bOut[o].n = bLines[o].n
          /\ bOut[o].by = IF ~bGb.err /\ 1 <= bLines[o].n /\ bLines[o].n <= bGb.records
                          THEN << bGb.abs, bLines[o].n >>
                          ELSE <<>>
    /\ bPc = "end" => Len(bOut) = Len(bLines)

C18_Witness ==
    /\ bPc = "end" /\ ~bGb.err /\ bGb.records = 2
    /\ Len(bLines) = 2 /\ bLines[1].n = 3 /\ bLines[2].n = 2
    /\ bOut[1].by = <<>> /\ bOut[2].by # <<>>

\* The positions of the author lines of the stream, and for an author line
\* the positions of the parseable author-time lines between it and the next
\* author line.
AuthorAt == { i \in DOMAIN pIn : IsAuthor(pIn[i]) }
StampsOf(a) ==
    { t \in DOMAIN pIn :
        /\ a < t /\ ParseIntOk(pIn[t])
        /\ \A b \in AuthorAt : ~(a < b /\ b < t) }
StampOf(a) ==
    IF StampsOf(a) = {} THEN 0
    ELSE pIn[CHOOSE t \in StampsOf(a) : \A u \in StampsOf(a) : u <= t].ts

\* C19 (as claimed): for every stream, the sequence parseGitBlame delivers
\* holds one LineBlame per author line, in the order of the stream, the
\* last one included; each timestamp is the value of the last parseable
\* author-time line between its author line and the next one, 0 when there
\* is none; the sequence is put on the blame channel exactly once.
C19_OneRecordPerAuthorLine ==
    /\ pPc \in { "scan", "send" } => pChan = <<>>
    /\ pPc = "end" =>
          /\ Len(pChan) = 1
          /\ Len(pChan[1]) = Cardinality(AuthorAt)
          /\ \A k \in DOMAIN pChan[1] :
                LET a == pChan[1][k].Author.id IN
                /\ a \in AuthorAt
                /\ Cardinality({ b \in AuthorAt : b < a }) = k - 1
                /\ pChan[1][k].Timestamp = StampOf(a)

\* C20 (as claimed): once the traversal is over and every job is complete
\* the job channel and the result stream are closed, so that every worker
\* and the sink leave their receive loops: when Search has returned no
\* goroutine is left blocked in a receive.
C20_NobodyLeftReceiving ==
    spc = "returned" =>
        /\ \A w \in Workers : wpc[w] # "recv"
        /\ kpc # "recv"

\* C21 (as claimed): the absolute path BlameFile hands to git for a result
\* names the file the worker scanned for that result, also with a relative
\* root and whatever results the sink has processed before.
C21_BlameTargetsScannedFile ==
    kpc = "lines" => kgb.abs = kres.src

\* C22: inside BlameFile the parser's send on the blame channel never
\* blocks; BlameFile is past wg.Wait() only when the parser has finished;
\* when it has returned git has exited, and it returned the error of a
\* non-zero exit without records, or else exactly the sequence the parser
\* sent; and once git has exited BlameFile eventually returns.
C22_HandOff ==
    /\ [](pPc = "send" => ENABLED ParseSend)
    /\ [](fPc \in { "cmdWait", "recv", "returned" } => (pPc = "end" /\ fWg = 0))
    /\ [](fPc = "returned" =>
            /\ gPc = "exited"
            /\ IF gFail THEN fErr /\ fBlames = <<>>
                         ELSE ~fErr /\ fBlames = pBlames /\ pChan = <<>>)
    /\ (gPc = "exited" ~> fPc = "returned")

C22_Witness ==
    /\ fPc = "returned" /\ ~fErr
    /\ Len(fBlames) = 2 /\ fBlames[1].Timestamp = 1

====
